---------------------------- MODULE Spec2Model ----------------------------
(***************************************************************************)
(* A model of art::arm::DisassemblerArm (src/src/disassembler_arm.cc).     *)
(*                                                                         *)
(* The state is one call of Dump: the byte buffer, the two arguments, the  *)
(* loop's locals and the text written to the output stream.  The decoders  *)
(* DumpArm, DumpThumb16 and DumpThumb32 are operators over the buffer that *)
(* return the text they write and the number of bytes they consume.        *)
(*                                                                         *)
(* A uint32_t / int32_t value is kept to its 32 bits by every shift, mask  *)
(* and complement.  A uint16_t is a natural below 65536.                   *)
(* An address is the byte offset into the buffer; the buffer's base is     *)
(* even, so the low bit of an address is the low bit of the pointer.       *)
(***************************************************************************)
EXTENDS Integers, Sequences, FiniteSets

(***************************************************************************)
(* Bounds of the model.                                                    *)
(***************************************************************************)
\* number of 16-bit halfwords in the buffer handed to Dump
MemHalf == 5

\* begin ranges over 0..MaxBegin (the low bit is the mode tag)
MaxBegin == 1

(***************************************************************************)
(* 32-bit words.  A word is the integer its 32 bits denote as an int32_t   *)
(* (two's complement), so a uint32_t with bit 31 set is its value minus    *)
(* 2^32: the conversion between uint32_t and int32_t keeps the bits and is *)
(* the identity here.  \div and % are TLA+'s floor division and modulus.   *)
(***************************************************************************)
\* the word of the natural n, n < 2^31
Word(n) == n

\* the value of a word read as uint32_t; only used where bit 31 is clear
Val(w) == w

\* the value of a word read as int32_t
Int32(w) == w

\* bit 31 alone: the int32_t -2^31
SignBit == (-(2 ^ 30)) - (2 ^ 30)

\* a << n on 32 bits, 0 <= n <= 31: bits shifted past bit 31 are lost
Shl(w, n) ==
  IF n = 0 THEN w
  ELSE (IF n = 31 THEN 0 ELSE (w % (2 ^ (31 - n))) * (2 ^ n))
         + (IF (w \div (2 ^ (31 - n))) % 2 = 1 THEN SignBit ELSE 0)

\* a >> n on int32_t, 0 <= n <= 31: the sign bit is shifted in
Sar(w, n) ==
  IF n = 31 THEN (IF w < 0 THEN -1 ELSE 0) ELSE w \div (2 ^ n)

\* a >> n on uint32_t, 0 <= n <= 31: zeros are shifted in
Shr(w, n) ==
  IF n = 0 \/ w >= 0 THEN Sar(w, n)
  ELSE Sar(w, n) + (2 ^ (31 - n)) + (2 ^ (31 - n))

\* ~a
Not(a) == (-a) - 1

RECURSIVE And(_, _)
\* a & b
And(a, b) ==
  CASE a = 0 \/ b = 0 -> 0
    [] a = -1 -> b
    [] b = -1 -> a
    [] OTHER -> ((a % 2) * (b % 2)) + (2 * And(a \div 2, b \div 2))

RECURSIVE Or(_, _)
\* a | b
Or(a, b) ==
  CASE a = 0 -> b
    [] b = 0 -> a
    [] a = -1 \/ b = -1 -> -1
    [] OTHER -> (IF a % 2 = 1 \/ b % 2 = 1 THEN 1 ELSE 0)
                  + (2 * Or(a \div 2, b \div 2))

RECURSIVE Xor(_, _)
\* a ^ b
Xor(a, b) ==
  CASE a = 0 -> b
    [] b = 0 -> a
    [] a = -1 -> Not(b)
    [] b = -1 -> Not(a)
    [] OTHER -> (IF a % 2 # b % 2 THEN 1 ELSE 0)
                  + (2 * Xor(a \div 2, b \div 2))

\* (w >> sh) & mask, as a natural
Field(w, sh, mask) == Val(And(Shr(w, sh), Word(mask)))

\* a & b on naturals below 2^31
BitAnd(a, b) == Val(And(Word(a), Word(b)))

\* p & ~1 on an address
ClearLowBit(p) == p - (p % 2)

(***************************************************************************)
(* The output stream: a sequence of tokens <<kind, text, n, m>>.           *)
(***************************************************************************)
\* os << "literal"
Str(s) == <<"str", s, 0, 0>>

\* os << integer (decimal)
Dec(n) == <<"dec", "", n, 0>>

\* os << pointer
Ptr(p) == <<"ptr", "", p, 0>>

\* StringPrintf("\t\t\t%p: ", instr_ptr)
AddrPrefix(p) == <<"addr", "", p, 0>>

\* %08x of a 32-bit word, as its high and low halves
Hex8(w) == <<"hex8", "", Field(w, 16, 65535), Field(w, 0, 65535)>>

\* %04x of a 16-bit word
Hex4(n) == <<"hex4", "", 0, n>>

\* the "\n" that ends a line
Newline == <<"nl", "", 0, 0>>

(***************************************************************************)
(* Operand formatters.                                                     *)
(***************************************************************************)
ConditionCodeNames ==
  <<"EQ", "NE", "CS", "CC", "MI", "PL", "VS", "VC", "HI", "LS", "GE", "LT",
    "GT", "LE", "AL">>

\* ConditionCodeNames[i]: a read past the 15 entries is marked as such
ConditionCodeNamesAt(i) ==
  IF i < Len(ConditionCodeNames)
    THEN Str(ConditionCodeNames[i + 1])
    ELSE <<"oob", "", i, 0>>

\* a faulty variant of DumpCond: the last table entry is treated as unexpected
DumpCond_Faulty(cond) ==
  IF cond < 14
    THEN <<ConditionCodeNamesAt(cond)>>
    ELSE <<Str("Unexpected condition: "), Dec(cond)>>

DumpCond(cond) ==
  IF cond < 15
    THEN <<ConditionCodeNamesAt(cond)>>
    ELSE <<Str("Unexpected condition: "), Dec(cond)>>

DumpReg(reg) ==
  CASE reg = 13 -> <<Str("SP")>>
    [] reg = 14 -> <<Str("LR")>>
    [] reg = 15 -> <<Str("PC")>>
    [] OTHER -> <<Str("r"), Dec(reg)>>

RECURSIVE RegListLoop(_, _, _)
RegListLoop(reg_list, i, first) ==
  IF i >= 16 THEN <<>>
  ELSE IF (reg_list \div (2 ^ i)) % 2 # 0
    THEN <<Str(IF first THEN "{" ELSE ", ")>> \o DumpReg(i)
           \o RegListLoop(reg_list, i + 1, FALSE)
    ELSE RegListLoop(reg_list, i + 1, first)

DumpRegList(reg_list) ==
  IF reg_list = 0
    THEN <<Str("<no register list?>")>>
    ELSE RegListLoop(reg_list, 0, TRUE) \o <<Str("}")>>

\* imm32 is an int32_t word; the target is instr_ptr + imm32
DumpBranchTarget(instr_ptr, imm32) ==
  <<Dec(Int32(imm32)), Str(" ("), Ptr(instr_ptr + Int32(imm32)), Str(")")>>

(***************************************************************************)
(* Primitive readers: little-endian words of the buffer.                   *)
(***************************************************************************)
ReadU16(mem, ptr) == Or(Word(mem[ptr]), Shl(Word(mem[ptr + 1]), 8))

ReadU32(mem, ptr) ==
  Or(Or(Word(mem[ptr]), Shl(Word(mem[ptr + 1]), 8)),
     Or(Shl(Word(mem[ptr + 2]), 16), Shl(Word(mem[ptr + 3]), 24)))

(***************************************************************************)
(* Fixed-width decoder.  A decoder returns the tokens it writes (os), the  *)
(* number of bytes it reports consumed (ret), the number of bytes it read  *)
(* from instr_ptr on (rd) and the decoders entered, in call order (calls). *)
(***************************************************************************)
DumpArm(mem, instr_ptr) ==
  [os |-> <<AddrPrefix(instr_ptr), Hex8(ReadU32(mem, instr_ptr)), Newline>>,
   ret |-> 4,
   rd |-> 4,
   calls |-> <<"DumpArm">>]

(***************************************************************************)
(* Compressed-mode long decoder: the families of DumpThumb32.  Each takes  *)
(* the combined 32-bit word and returns the mnemonic/operand tokens.       *)
(***************************************************************************)
\* the write-back suffix after the base register of a multiple transfer
WriteBackSep(W) == <<Str(IF W = 0 THEN ", " ELSE "!, ")>>

\* case 1: op2 values of STM/LDM/PUSH/POP
LoadStoreMultipleOp2 ==
  {\h00, \h01, \h02, \h03, \h08, \h09, \h0A, \h0B,
   \h10, \h11, \h12, \h13, \h18, \h19, \h1A, \h1B}

Thumb32LoadStoreMultiple(instr) ==
  LET op == Field(instr, 23, 3)
      W == Field(instr, 21, 1)
      L == Field(instr, 20, 1)
      Rn == Field(instr, 16, \hF)
      reg_list == Field(instr, 0, \hFFFF)
  IN IF op = 1 \/ op = 2
       THEN (IF op = 1
               THEN IF L = 0
                      THEN <<Str("STM ")>> \o DumpReg(Rn) \o WriteBackSep(W)
                      ELSE IF Rn # 13
                             THEN <<Str("LDM ")>> \o DumpReg(Rn)
                                    \o WriteBackSep(W)
                             ELSE <<Str("POP ")>>
               ELSE IF L = 0
                      THEN IF Rn # 13
                             THEN <<Str("STMDB ")>> \o DumpReg(Rn)
                                    \o WriteBackSep(W)
                             ELSE <<Str("PUSH ")>>
                      ELSE <<Str("LDMDB ")>> \o DumpReg(Rn) \o WriteBackSep(W))
            \o DumpRegList(reg_list) \o <<Str("  // ")>>
       ELSE <<>>

\* the switch on op3 of the modified-immediate family
DataProcModImmName(op3) ==
  CASE op3 = \h0 -> <<Str("AND")>>
    [] op3 = \h1 -> <<Str("BIC")>>
    [] op3 = \h2 -> <<Str("ORR")>>
    [] op3 = \h3 -> <<Str("ORN")>>
    [] op3 = \h4 -> <<Str("EOR")>>
    [] op3 = \h8 -> <<Str("ADD")>>
    [] op3 = \hA -> <<Str("ADC")>>
    [] op3 = \hB -> <<Str("SBC")>>
    [] op3 = \hD -> <<Str("SUB")>>
    [] op3 = \hE -> <<Str("RSB")>>
    [] OTHER -> <<Str("UNKNOWN DPMI-"), Dec(op3)>>

\* int32_t imm32 = (i << 12) | (imm3 << 8) | imm8
ModImmValue(i, imm3, imm8) ==
  Or(Or(Shl(Word(i), 12), Shl(Word(imm3), 8)), Word(imm8))

\* Data-processing (modified immediate)
Thumb32DataProcModImm(instr) ==
  LET i == Field(instr, 26, 1)
      op3 == Field(instr, 21, \hF)
      S == Field(instr, 20, 1)
      Rn == Field(instr, 16, \hF)
      imm3 == Field(instr, 12, 7)
      Rd == Field(instr, 8, \hF)
      imm8 == Field(instr, 0, \hFF)
      imm32 == ModImmValue(i, imm3, imm8)
  IN DataProcModImmName(op3)
       \o <<Str(IF S = 1 THEN "S " ELSE " ")>>
       \o DumpReg(Rd) \o <<Str(", ")>> \o DumpReg(Rn)
       \o <<Str(", ThumbExpand("), Dec(Int32(imm32)), Str(")  // ")>>

\* Data-processing (plain binary immediate)
Thumb32DataProcPlainImm(instr) ==
  LET op3 == Field(instr, 20, \h1F)
      Rn == Field(instr, 16, \hF)
      Rd == Field(instr, 8, \hF)
      i == Field(instr, 26, 1)
      imm3 == Field(instr, 12, \h7)
      imm8 == Field(instr, 0, \hFF)
      imm16 == Or(Or(Shl(Word(Rn), 12), Shl(Word(i), 11)),
                  Or(Shl(Word(imm3), 8), Word(imm8)))
      imm12 == Or(Or(Shl(Word(i), 11), Shl(Word(imm3), 8)), Word(imm8))
  IN CASE op3 = \h04 ->
            <<Str("MOVW ")>> \o DumpReg(Rd)
              \o <<Str(", #"), Dec(Val(imm16)), Str("  // ")>>
       [] op3 = \h0A ->
            <<Str("SUB.W ")>> \o DumpReg(Rd) \o <<Str(", ")>> \o DumpReg(Rn)
              \o <<Str(", #"), Dec(Val(imm12)), Str("  // ")>>
       [] OTHER -> <<>>

\* imm32 of the conditional branch, after the 21-bit sign extension
CondBranchImm32(S, J2, J1, imm6, imm11) ==
  LET imm32 == Or(Or(Shl(Word(S), 20), Shl(Word(J2), 19)),
                  Or(Shl(Word(J1), 18),
                     Or(Shl(Word(imm6), 12), Shl(Word(imm11), 1))))
  IN Sar(Shl(imm32, 11), 11)

\* a faulty variant of Thumb32CondBranch: the guard tests the low 6 bits of
\* op2
Thumb32CondBranch_Faulty(instr, instr_ptr) ==
  LET op2 == Field(instr, 20, \h7F)
      cond == Field(instr, 22, \hF)
      imm32 == CondBranchImm32(Field(instr, 26, 1), Field(instr, 11, 1),
                               Field(instr, 13, 1), Field(instr, 16, \h3F),
                               Field(instr, 0, \h7FF))
  IN IF BitAnd(op2, \h3F) # \h3F
       THEN <<Str("B")>> \o DumpCond(cond) \o <<Str(".W ")>>
              \o DumpBranchTarget(instr_ptr + 4, imm32) \o <<Str("  // ")>>
       ELSE <<>>

\* case 0 of the branch family: the conditional branch
Thumb32CondBranch(instr, instr_ptr) ==
  LET op2 == Field(instr, 20, \h7F)
      S == Field(instr, 26, 1)
      J2 == Field(instr, 11, 1)
      J1 == Field(instr, 13, 1)
      imm6 == Field(instr, 16, \h3F)
      imm11 == Field(instr, 0, \h7FF)
      cond == Field(instr, 22, \hF)
      imm32 == CondBranchImm32(S, J2, J1, imm6, imm11)
  IN IF BitAnd(op2, \h38) # \h38
       THEN <<Str("B")>> \o DumpCond(cond) \o <<Str(".W ")>>
              \o DumpBranchTarget(instr_ptr + 4, imm32) \o <<Str("  // ")>>
       ELSE <<>>

\* imm32 of BL/BLX (immediate), after the sign extension
BranchLinkImm32(S, J1, J2, imm10, imm11) ==
  LET I1 == Not(Xor(Word(J1), Word(S)))
      I2 == Not(Xor(Word(J2), Word(S)))
      imm32 == Or(Or(Shl(Word(S), 24), Shl(I1, 23)),
                  Or(Shl(I2, 22),
                     Or(Shl(Word(imm10), 12), Shl(Word(imm11), 1))))
  IN Sar(Shl(imm32, 8), 8)

\* a faulty variant of Thumb32BranchLink: the target is taken from instr_ptr
Thumb32BranchLink_Faulty(instr, instr_ptr) ==
  <<Str(IF Field(instr, 12, 1) = 0 THEN "BX " ELSE "BLX ")>>
    \o DumpBranchTarget(instr_ptr,
                        BranchLinkImm32(Field(instr, 26, 1), Field(instr, 13, 1),
                                        Field(instr, 11, 1),
                                        Field(instr, 16, \h3FF),
                                        Field(instr, 0, \h7FF)))

\* case 4..7 of the branch family: BL, BLX (immediate)
Thumb32BranchLink(instr, instr_ptr) ==
  LET S == Field(instr, 26, 1)
      J2 == Field(instr, 11, 1)
      L == Field(instr, 12, 1)
      J1 == Field(instr, 13, 1)
      imm10 == Field(instr, 16, \h3FF)
      imm11 == Field(instr, 0, \h7FF)
      imm32 == BranchLinkImm32(S, J1, J2, imm10, imm11)
  IN <<Str(IF L = 0 THEN "BX " ELSE "BLX ")>>
       \o DumpBranchTarget(instr_ptr + 4, imm32)

\* Branches and miscellaneous control
Thumb32Branches(instr, instr_ptr) ==
  LET op3 == Field(instr, 12, 7)
  IN CASE op3 = 0 -> Thumb32CondBranch(instr, instr_ptr)
       [] op3 \in {4, 5, 6, 7} -> Thumb32BranchLink(instr, instr_ptr)
       [] OTHER -> <<>>

\* case 2 of the switch on op1
Thumb32Op1Is2(instr, instr_ptr) ==
  LET op2 == Field(instr, 20, \h7F)
      bit15clear == And(instr, Word(\h8000)) = 0
  IN IF bit15clear /\ BitAnd(op2, \h20) = 0
       THEN Thumb32DataProcModImm(instr)
       ELSE IF bit15clear /\ BitAnd(op2, \h20) # 0
              THEN Thumb32DataProcPlainImm(instr)
              ELSE Thumb32Branches(instr, instr_ptr)

\* case 3: op2 values of "store single data item" (000xxx0)
StoreSingleOp2 == {\h00, \h02, \h04, \h06, \h08, \h0A, \h0C, \h0E}

\* case 3: op2 values of "load word" (00xx101)
LoadWordOp2 == {\h05, \h0D, \h15, \h1D}

\* int32_t imm32 = (imm8 << 24) >> 24 with imm8 a uint32_t: both shifts are
\* done on the unsigned type, the result is then converted to int32_t
StoreImm8Value(imm8) == Shr(Shl(Word(imm8), 24), 24)

\* STR Rt, [Rn, #imm8] (op3 == 2)
Thumb32StoreImm8(instr) ==
  LET Rn == Field(instr, 16, \hF)
      Rt == Field(instr, 12, \hF)
      P == Field(instr, 10, 1)
      U == Field(instr, 9, 1)
      W == Field(instr, 8, 1)
      imm8 == Field(instr, 0, \hFF)
      imm32 == Int32(StoreImm8Value(imm8))
  IN IF Rn = 13 /\ P = 1 /\ U = 0 /\ W = 1
       THEN <<Str("PUSH ")>> \o DumpReg(Rt) \o <<Str("  // ")>>
       ELSE IF Rn = 15 \/ (P = 0 /\ W = 0)
              THEN <<Str("UNDEFINED ")>>
              ELSE <<Str(IF P = 1 /\ U = 1 /\ W = 0 THEN "STRT " ELSE "STR ")>>
                     \o DumpReg(Rt) \o <<Str(", [")>> \o DumpReg(Rn)
                     \o (IF P = 0 /\ W = 1
                           THEN <<Str("], #"), Dec(imm32)>>
                           ELSE <<Str(", #"), Dec(imm32), Str("]")>>
                                  \o (IF W = 1 THEN <<Str("!")>> ELSE <<>>))
                     \o <<Str("  // ")>>

\* STR.W Rt, [Rn, #imm12] (op3 == 6)
Thumb32StoreImm12(instr) ==
  LET Rn == Field(instr, 16, \hF)
      Rt == Field(instr, 12, \hF)
      imm12 == Field(instr, 0, \hFFF)
  IN <<Str("STR.W ")>> \o DumpReg(Rt) \o <<Str(", [")>> \o DumpReg(Rn)
       \o <<Str(", #"), Dec(imm12), Str("]  // ")>>

\* Store single data item
Thumb32StoreSingle(instr) ==
  LET op3 == Field(instr, 21, 7)
  IN CASE op3 = \h2 -> Thumb32StoreImm8(instr)
       [] op3 = \h6 -> Thumb32StoreImm12(instr)
       [] OTHER -> <<>>

\* Load word
Thumb32LoadWord(instr) ==
  LET op3 == Field(instr, 23, 3)
      op4 == Field(instr, 6, \h3F)
      Rn == Field(instr, 16, \hF)
      Rt == Field(instr, 12, \hF)
      imm12 == Field(instr, 0, \hFFF)
      imm2 == Field(instr, 4, \hF)
      Rm == Field(instr, 0, \hF)
      imm8 == Field(instr, 0, \hFF)
  IN IF op3 = 1 \/ Rn = 15
       THEN <<Str("LDR.W ")>> \o DumpReg(Rt) \o <<Str(", [")>> \o DumpReg(Rn)
              \o <<Str(", #"), Dec(imm12), Str("]  // ")>>
       ELSE IF op4 = 0
              THEN <<Str("LDR.W ")>> \o DumpReg(Rt) \o <<Str(", [")>>
                     \o DumpReg(Rn) \o <<Str(", ")>> \o DumpReg(Rm)
                     \o (IF imm2 # 0 THEN <<Str(", LSL #"), Dec(imm2)>>
                                     ELSE <<>>)
                     \o <<Str("]  // ")>>
              ELSE <<Str("LDRT ")>> \o DumpReg(Rt) \o <<Str(", [")>>
                     \o DumpReg(Rn) \o <<Str(", #"), Dec(imm8), Str("]  // ")>>

\* uint32_t instr = (ReadU16(instr_ptr) << 16) | ReadU16(instr_ptr + 2)
Thumb32Instr(mem, instr_ptr) ==
  Or(Shl(ReadU16(mem, instr_ptr), 16), ReadU16(mem, instr_ptr + 2))

\* the switch on op1 for op1 in 1..3: the mnemonic and operands
Thumb32Body(instr, instr_ptr) ==
  LET op1 == Field(instr, 27, 3)
      op2 == Field(instr, 20, \h7F)
  IN CASE op1 = 1 ->
            IF op2 \in LoadStoreMultipleOp2
              THEN Thumb32LoadStoreMultiple(instr)
              ELSE <<>>
       [] op1 = 2 -> Thumb32Op1Is2(instr, instr_ptr)
       [] op1 = 3 ->
            CASE op2 \in StoreSingleOp2 -> Thumb32StoreSingle(instr)
              [] op2 \in LoadWordOp2 -> Thumb32LoadWord(instr)
              [] OTHER -> <<>>
       [] OTHER -> <<>>

(***************************************************************************)
(* Compressed-mode short decoder: the families of DumpThumb16.  Each takes *)
(* the 16-bit word (a natural below 65536) and returns the tokens.         *)
(***************************************************************************)
\* (instr >> sh) & mask on a uint16_t
Field16(instr, sh, mask) == BitAnd(instr \div (2 ^ sh), mask)

\* a faulty variant of Is32Bit: the 11101 pattern is not recognised
Is32Bit_Faulty(instr) == BitAnd(instr, \hF000) = \hF000

\* bool is_32bit
Is32Bit(instr) ==
  (BitAnd(instr, \hF000) = \hF000) \/ (BitAnd(instr, \hF800) = \hE800)

\* shift (immediate): opcode2 in 0x0..0xB
Thumb16ShiftImm(instr, opcode2) ==
  LET imm5 == Field16(instr, 6, \h1F)
      Rm == Field16(instr, 3, 7)
      Rd == BitAnd(instr, 7)
  IN <<Str(IF opcode2 <= 3 THEN "LSLS "
           ELSE IF opcode2 <= 7 THEN "LSRS " ELSE "ASRS ")>>
       \o DumpReg(Rd) \o <<Str(", ")>> \o DumpReg(Rm)
       \o <<Str(", #"), Dec(imm5), Str("  // ")>>

\* a faulty variant of Thumb16AddSub: only the subtract-immediate variant
\* with immediate 0 is written as MOV
Thumb16AddSub_Faulty(instr, opcode2) ==
  LET imm3_or_Rm == Field16(instr, 6, 7)
      Rn == Field16(instr, 3, 7)
      Rd == BitAnd(instr, 7)
      mov == BitAnd(opcode2, 3) = 3 /\ imm3_or_Rm = 0
  IN <<Str(IF mov THEN "MOV "
           ELSE IF BitAnd(opcode2, 1) = 0 THEN "ADDS " ELSE "SUBS ")>>
       \o DumpReg(Rd) \o <<Str(", ")>> \o DumpReg(Rn)
       \o (IF BitAnd(opcode2, 2) = 0
             THEN <<Str(", ")>> \o DumpReg(imm3_or_Rm)
             ELSE IF ~mov
                    THEN <<Str(", #"), Dec(imm3_or_Rm)>>
                    ELSE <<>>)
       \o <<Str("  // ")>>

\* add/subtract register or 3-bit immediate: opcode2 in 0xC..0xF
Thumb16AddSub(instr, opcode2) ==
  LET imm3_or_Rm == Field16(instr, 6, 7)
      Rn == Field16(instr, 3, 7)
      Rd == BitAnd(instr, 7)
  IN <<Str(IF BitAnd(opcode2, 2) # 0 /\ imm3_or_Rm = 0
             THEN "MOV "
             ELSE IF BitAnd(opcode2, 1) = 0 THEN "ADDS " ELSE "SUBS ")>>
       \o DumpReg(Rd) \o <<Str(", ")>> \o DumpReg(Rn)
       \o (IF BitAnd(opcode2, 2) = 0
             THEN <<Str(", ")>> \o DumpReg(imm3_or_Rm)
             ELSE IF imm3_or_Rm # 0
                    THEN <<Str(", #"), Dec(imm3_or_Rm)>>
                    ELSE <<>>)
       \o <<Str("  // ")>>

\* move/compare/add/subtract 8-bit immediate: opcode2 in 0x10..0x1F
Thumb16Imm8(instr, opcode2) ==
  LET Rn == Field16(instr, 8, 7)
      imm8 == BitAnd(instr, \hFF)
      sel == opcode2 \div 4
  IN (CASE sel = 4 -> <<Str("MOVS ")>>
        [] sel = 5 -> <<Str("CMP ")>>
        [] sel = 6 -> <<Str("ADDS ")>>
        [] sel = 7 -> <<Str("SUBS ")>>
        [] OTHER -> <<>>)
       \o DumpReg(Rn) \o <<Str(", #"), Dec(imm8), Str("  // ")>>

\* opcode1 < 0x10: shift (immediate), add, subtract, move, and compare
Thumb16ShiftAddSubMovCmp(instr) ==
  LET opcode2 == instr \div (2 ^ 9)
  IN CASE opcode2 \in \h0 .. \hB -> Thumb16ShiftImm(instr, opcode2)
       [] opcode2 \in \hC .. \hF -> Thumb16AddSub(instr, opcode2)
       [] opcode2 \in \h10 .. \h1F -> Thumb16Imm8(instr, opcode2)
       [] OTHER -> <<>>

\* the operands "DN_Rdn, Rm" shared by ADD, MOV and CMP of high registers
Thumb16HighRegs(instr) ==
  LET DN == Field16(instr, 7, 1)
      Rm == Field16(instr, 3, \hF)
      Rdn == BitAnd(instr, 7)
      DN_Rdn == (DN * 8) + Rdn
  IN DumpReg(DN_Rdn) \o <<Str(", ")>> \o DumpReg(Rm) \o <<Str("  // ")>>

\* opcode1 == 0x11: special data instructions and branch and exchange
Thumb16SpecialData(instr) ==
  LET opcode2 == Field16(instr, 6, \h0F)
      Rm == Field16(instr, 3, \hF)
  IN CASE opcode2 \in \h0 .. \h3 -> <<Str("ADD ")>> \o Thumb16HighRegs(instr)
       [] opcode2 \in \h8 .. \hB -> <<Str("MOV ")>> \o Thumb16HighRegs(instr)
       [] opcode2 \in \h5 .. \h7 -> <<Str("CMP ")>> \o Thumb16HighRegs(instr)
       [] opcode2 \in \hC .. \hF ->
            <<Str(IF BitAnd(opcode2, \h2) = 0 THEN "BX " ELSE "BLX ")>>
              \o DumpReg(Rm) \o <<Str("  // ")>>
       [] OTHER -> <<>>

\* If-Then, and hints: opcode2 in 0x78..0x7F
Thumb16IfThenHints(instr) ==
  LET opA == Field16(instr, 4, \hF)
      opB == BitAnd(instr, \hF)
  IN IF opB = 0
       THEN CASE opA = 0 -> <<Str("NOP  // ")>>
              [] opA = 1 -> <<Str("YIELD  // ")>>
              [] opA = 2 -> <<Str("WFE  // ")>>
              [] opA = 3 -> <<Str("SEV  // ")>>
              [] OTHER -> <<>>
       ELSE <<Str("IT "), Ptr(opB), Str(" ")>> \o DumpCond(opA)
              \o <<Str("  // ")>>

\* (instr & 0xF000) == 0xB000: miscellaneous 16-bit instructions
Thumb16Misc(instr) ==
  LET opcode2 == Field16(instr, 5, \h7F)
      imm7 == BitAnd(instr, \h7F)
  IN CASE opcode2 \in \h00 .. \h07 ->
            <<Str(IF BitAnd(opcode2, 4) = 0 THEN "ADD SP, SP, #"
                                            ELSE "SUB SP, SP, #"),
              Dec(imm7 * 4), Str("  // ")>>
       [] opcode2 \in \h78 .. \h7F -> Thumb16IfThenHints(instr)
       [] OTHER -> <<>>

\* load/store single data item
Thumb16LoadStore(instr) ==
  LET opA == instr \div (2 ^ 12)
      name == <<Str(IF BitAnd(instr, \h800) = 0 THEN "STR " ELSE "LDR ")>>
  IN CASE opA = \h6 ->
            LET imm5 == Field16(instr, 6, \h1F)
                Rn == Field16(instr, 3, 7)
                Rt == BitAnd(instr, 7)
            IN name \o DumpReg(Rt) \o <<Str(", [")>> \o DumpReg(Rn)
                 \o <<Str(", #"), Dec(imm5 * 4), Str("]  // ")>>
       [] opA = \h9 ->
            LET imm8 == BitAnd(instr, \hFF)
                Rt == Field16(instr, 8, 7)
            IN name \o DumpReg(Rt)
                 \o <<Str(", [SP, #"), Dec(imm8 * 4), Str("]  // ")>>
       [] OTHER -> <<>>

\* a faulty variant of Thumb16BranchImm32: the sign extension is from 16 bits
Thumb16BranchImm32_Faulty(instr) ==
  Sar(Shl(Shl(Word(BitAnd(instr, \h7FFF)), 1), 16), 16)

\* imm32 of the 16-bit unconditional branch, after the sign extension
Thumb16BranchImm32(instr) ==
  LET imm11 == BitAnd(instr, \h7FFF)
      imm32 == Shl(Word(imm11), 1)
  IN Sar(Shl(imm32, 20), 20)

\* opcode1 == 0x38 || opcode1 == 0x39: unconditional branch
Thumb16Branch(instr, instr_ptr) ==
  <<Str("B ")>> \o DumpBranchTarget(instr_ptr + 4, Thumb16BranchImm32(instr))
    \o <<Str("  // ")>>

\* the if / else-if chain of DumpThumb16 for a word that is not 32-bit
Thumb16Body(instr, instr_ptr) ==
  LET opcode1 == instr \div (2 ^ 10)
  IN CASE opcode1 < \h10 -> Thumb16ShiftAddSubMovCmp(instr)
       [] opcode1 = \h11 -> Thumb16SpecialData(instr)
       [] BitAnd(instr, \hF000) = \hB000 -> Thumb16Misc(instr)
       [] (BitAnd(instr, \hF000) = \h5000) \/ (BitAnd(instr, \hE000) = \h6000)
            \/ (BitAnd(instr, \hE000) = \h8000) -> Thumb16LoadStore(instr)
       [] opcode1 = \h38 \/ opcode1 = \h39 -> Thumb16Branch(instr, instr_ptr)
       [] OTHER -> <<>>

(***************************************************************************)
(* DumpThumb32 and DumpThumb16 call each other.                            *)
(***************************************************************************)
RECURSIVE DumpThumb32(_, _), DumpThumb16(_, _)

\* a faulty variant of DumpThumb32: an unmatched word returns before the raw
\* word is written
DumpThumb32_Faulty(mem, instr_ptr) ==
  LET instr == Thumb32Instr(mem, instr_ptr)
      body == Thumb32Body(instr, instr_ptr)
  IN [os |-> <<AddrPrefix(instr_ptr)>> \o body
               \o (IF body = <<>> THEN <<>> ELSE <<Hex8(instr), Newline>>),
      ret |-> 4,
      rd |-> 4,
      calls |-> <<"DumpThumb32">>]

DumpThumb32(mem, instr_ptr) ==
  LET instr == Thumb32Instr(mem, instr_ptr)
      op1 == Field(instr, 27, 3)
      prefix == <<AddrPrefix(instr_ptr)>>
  IN IF op1 = 0
       THEN LET r == DumpThumb16(mem, instr_ptr)
            IN [os |-> prefix \o r.os, ret |-> r.ret, rd |-> 4,
                calls |-> <<"DumpThumb32">> \o r.calls]
       ELSE [os |-> prefix \o Thumb32Body(instr, instr_ptr)
                      \o <<Hex8(instr), Newline>>,
             ret |-> 4,
             rd |-> 4,
             calls |-> <<"DumpThumb32">>]

\* a faulty variant of DumpThumb16: the address prefix is written before the
\* test of is_32bit
DumpThumb16_Faulty(mem, instr_ptr) ==
  LET instr == Val(And(ReadU16(mem, instr_ptr), Word(\hFFFF)))
      prefix == <<AddrPrefix(instr_ptr)>>
  IN IF Is32Bit(instr)
       THEN LET r == DumpThumb32(mem, instr_ptr)
            IN [os |-> prefix \o r.os, ret |-> r.ret, rd |-> r.rd,
                calls |-> <<"DumpThumb16">> \o r.calls]
       ELSE [os |-> prefix \o Thumb16Body(instr, instr_ptr)
                      \o <<Hex4(instr), Newline>>,
             ret |-> 2,
             rd |-> 2,
             calls |-> <<"DumpThumb16">>]

DumpThumb16(mem, instr_ptr) ==
  LET instr == Val(And(ReadU16(mem, instr_ptr), Word(\hFFFF)))
  IN IF Is32Bit(instr)
       THEN LET r == DumpThumb32(mem, instr_ptr)
            IN [os |-> r.os, ret |-> r.ret, rd |-> r.rd,
                calls |-> <<"DumpThumb16">> \o r.calls]
       ELSE [os |-> <<AddrPrefix(instr_ptr)>> \o Thumb16Body(instr, instr_ptr)
                      \o <<Hex4(instr), Newline>>,
             ret |-> 2,
             rd |-> 2,
             calls |-> <<"DumpThumb16">>]

(***************************************************************************)
(* The inputs of Dump: buffers and ranges.                                 *)
(*                                                                         *)
(* A buffer is MemHalf little-endian halfwords.  WalkPrograms are all      *)
(* buffers over a few words of both lengths, for the walk; UnitPrograms    *)
(* start with one instruction of each decoded family, with its fields at   *)
(* their extreme values, followed by NOPs.                                 *)
(***************************************************************************)
\* a 16-bit word (top bits 11010) and first halves of 32-bit words with top
\* bits 11101 and 11110; each also serves as a second half
WalkWords == {\hD000, \hE8BD, \hF000}

Nop16 == \hBF00

Samples16 ==
  {(o * 512) + low : o \in 0 .. 31, low \in {0, \h1FF}}
    \cup {(o * 512) + low : o \in \hC .. \hF, low \in {\h0A, \h4A}}
    \cup {\h4400 + (o * 64) + low : o \in 0 .. 15, low \in {0, \h3F}}
    \cup {\h4000, \h43FF}
    \cup {\hB000 + (o * 32) + low :
            o \in (0 .. 7) \cup {\h10, \h40}, low \in {0, \h1F}}
    \cup {\hBF00 + (a * 16) + b : a \in 0 .. 15, b \in {0, 1, 15}}
    \cup {\h5000, \h6000, \h67FF, \h6800, \h6FFF, \h7000, \h8000, \h9000,
          \h97FF, \h9800, \h9FFF}
    \cup {\hE000 + i : i \in {0, 1, \h3FF, \h400, \h7FF}}
    \cup {\h4800, \h5800, \h7800, \h8800, \hA000, \hA800, \hC000, \hC800,
          \hD000, \hDFFF}

\* load/store multiple: hw1 = 11101 op2 Rn, hw2 = register list
SamplesLoadStoreMultiple ==
  {<<\hE800 + (op2 * 16) + Rn, rl>> :
     op2 \in {\h00, \h04, \h08, \h09, \h0A, \h0B, \h10, \h11, \h12, \h13,
              \h18, \h7F},
     Rn \in {0, 13}, rl \in {0, \h8001}}

\* modified immediate: hw1 = 11110 i 0 op3 S Rn, hw2 = 0 imm3 Rd imm8
SamplesModImm ==
  {<<\hF000 + (op3 * 32) + (S * 16) + 1, \h0200>> :
     op3 \in 0 .. 15, S \in 0 .. 1}
    \cup {<<\hF100 + (i * 1024) + 1, (imm3 * 4096) + \h0200 + imm8>> :
            i \in 0 .. 1, imm3 \in {0, 5, 7}, imm8 \in {0, \hAB, \hFF}}

\* plain binary immediate: hw1 = 11110 i 1 op3 Rn, hw2 = 0 imm3 Rd imm8
SamplesPlainImm ==
  {<<\hF200 + (i * 1024) + (op3 * 16) + Rn, (imm3 * 4096) + \h0300 + imm8>> :
     i \in 0 .. 1, op3 \in {\h00, \h04, \h0A, \h1F}, Rn \in {0, 15},
     imm3 \in {0, 7}, imm8 \in {0, \hFF}}

\* conditional branch: hw1 = 11110 S cond imm6, hw2 = 10 J1 0 J2 imm11
SamplesCondBranch ==
  {<<\hF000 + (S * 1024) + (cond * 64) + imm6,
     \h8000 + (j[1] * 8192) + (j[2] * 2048) + j[3]>> :
     S \in 0 .. 1, cond \in 0 .. 15, imm6 \in {0, \h3F},
     j \in {<<0, 0, 0>>, <<1, 0, 0>>, <<0, 1, 1>>, <<1, 1, \h7FF>>}}

\* BL, BLX (immediate): hw1 = 11110 S imm10, hw2 = 11 J1 L J2 imm11
SamplesBranchLink ==
  {<<\hF000 + (S * 1024) + imm10,
     \hC000 + (J1 * 8192) + (L * 4096) + (J2 * 2048) + imm11>> :
     S \in 0 .. 1, imm10 \in {0, 1, \h3FF}, J1 \in 0 .. 1, L \in 0 .. 1,
     J2 \in 0 .. 1, imm11 \in {0, 1, \h7FF}}

\* the branch family with op3 in 1..3
SamplesOtherControl ==
  {<<hw1, hw2>> : hw1 \in {\hF000, \hF3BF}, hw2 \in {\h9000, \hA000, \hB000}}

\* store, 8-bit immediate: hw1 = 11111 000 010 0 Rn, hw2 = Rt 1 P U W imm8
SamplesStoreImm8 ==
  {<<\hF840 + Rn,
     \h2800 + (P * 1024) + (U * 512) + (W * 256) + imm8>> :
     Rn \in {1, 13, 15}, P \in 0 .. 1, U \in 0 .. 1, W \in 0 .. 1,
     imm8 \in {0, \h7F, \h80, \hFF}}

\* the other stores, the loads and two words of no decoded family
SamplesLoadStore ==
  {<<\hF800 + (op2 * 16) + 1, hw2>> :
     op2 \in StoreSingleOp2 \ {\h04}, hw2 \in {0, \h2FFF}}
    \cup {<<\hF800 + (op2 * 16) + Rn, hw2>> :
            op2 \in LoadWordOp2, Rn \in {1, 15},
            hw2 \in {\h2000, \h2031, \h2E05, \h2FFF}}
    \cup {<<\hF810, 0>>, <<\hFFF0, \hFFFF>>}

Samples32 ==
  SamplesLoadStoreMultiple \cup SamplesModImm \cup SamplesPlainImm
    \cup SamplesCondBranch \cup SamplesBranchLink \cup SamplesOtherControl
    \cup SamplesStoreImm8 \cup SamplesLoadStore

WalkPrograms == [1 .. MemHalf -> WalkWords]

UnitPrograms ==
  {[k \in 1 .. MemHalf |-> IF k = 1 THEN u[1] ELSE IF k = 2 THEN u[2] ELSE Nop16] :
     u \in Samples32 \cup {<<w, Nop16>> : w \in Samples16}}

Programs == WalkPrograms \cup UnitPrograms

\* the bytes of a buffer of halfwords, little-endian
BytesOf(prog) ==
  [a \in 0 .. ((2 * MemHalf) - 1) |->
     IF a % 2 = 0 THEN prog[(a \div 2) + 1] % 256
                  ELSE prog[(a \div 2) + 1] \div 256]

\* the largest untagged end: a unit that starts before it lies in the buffer
MaxEnd == (2 * MemHalf) - 4

(***************************************************************************)
(* The state of one call of Dump.                                          *)
(***************************************************************************)
VARIABLES
  pc,         \* "idle", "arm" (first loop), "thumb" (second loop), "done"
  mem,        \* the bytes of the buffer
  arg_begin,  \* Dump's argument begin, as passed
  arg_end,    \* Dump's argument end, as passed
  begin,      \* the local begin (reassigned in the Thumb branch)
  end,        \* the local end (reassigned in the Thumb branch)
  cur,        \* the loop cursor
  os,         \* the tokens written to the stream
  units       \* history: one record per decoder call of the loop

vars == <<pc, mem, arg_begin, arg_end, begin, end, cur, os, units>>

Init ==
  /\ pc = "idle"
  /\ mem = BytesOf([k \in 1 .. MemHalf |-> Nop16])
  /\ arg_begin = 0
  /\ arg_end = 0
  /\ begin = 0
  /\ end = 0
  /\ cur = 0
  /\ os = <<>>
  /\ units = <<>>

\* a faulty variant of DumpEnter: the Thumb branch leaves end tagged
DumpEnter_Faulty(prog, b, e) ==
  /\ pc = "idle"
  /\ mem' = BytesOf(prog)
  /\ arg_begin' = b
  /\ arg_end' = e
  /\ pc' = IF b % 2 = 0 THEN "arm" ELSE "thumb"
  /\ begin' = ClearLowBit(b)
  /\ end' = e
  /\ cur' = ClearLowBit(b)
  /\ os' = <<>>
  /\ units' = <<>>

\* the mode test and the locals before the first loop test
DumpEnter(prog, b, e) ==
  /\ pc = "idle"
  /\ mem' = BytesOf(prog)
  /\ arg_begin' = b
  /\ arg_end' = e
  /\ IF b % 2 = 0
       THEN /\ pc' = "arm"
            /\ begin' = b
            /\ end' = e
            /\ cur' = b
       ELSE /\ pc' = "thumb"
            /\ begin' = ClearLowBit(b)
            /\ end' = ClearLowBit(e)
            /\ cur' = ClearLowBit(b)
  /\ os' = <<>>
  /\ units' = <<>>

Unit(addr, r) ==
  [addr |-> addr, ret |-> r.ret, rd |-> r.rd, os |-> r.os, calls |-> r.calls]

\* one iteration of: for (cur = begin; cur < end; cur += 4) DumpArm(os, cur)
ArmLoop ==
  /\ pc = "arm"
  /\ cur < end
  /\ LET r == DumpArm(mem, cur)
     IN /\ os' = os \o r.os
        /\ units' = Append(units, Unit(cur, r))
  /\ cur' = cur + 4
  /\ UNCHANGED <<pc, mem, arg_begin, arg_end, begin, end>>

\* one iteration of: for (cur = begin; cur < end;) cur += DumpThumb16(os, cur)
ThumbLoop ==
  /\ pc = "thumb"
  /\ cur < end
  /\ LET r == DumpThumb16(mem, cur)
     IN /\ os' = os \o r.os
        /\ units' = Append(units, Unit(cur, r))
        /\ cur' = cur + r.ret
  /\ UNCHANGED <<pc, mem, arg_begin, arg_end, begin, end>>

\* the loop test fails: Dump returns
DumpReturn ==
  /\ pc \in {"arm", "thumb"}
  /\ ~(cur < end)
  /\ pc' = "done"
  /\ UNCHANGED <<mem, arg_begin, arg_end, begin, end, cur, os, units>>

\* void Dump(std::ostream& os, const uint8_t* begin, const uint8_t* end)
Dump ==
  /\ pc = "idle"
  /\ \E prog \in Programs, b \in 0 .. MaxBegin, e \in 0 .. (MaxEnd + 1) :
       DumpEnter(prog, b, e)

Next == Dump \/ ArmLoop \/ ThumbLoop \/ DumpReturn

Spec == Init /\ [][Next]_vars

(***************************************************************************)
(* Vocabulary of the properties.  Fields are taken from the buffer by      *)
(* division and remainder, apart from the decoders above.                  *)
(***************************************************************************)
\* the little-endian halfword at address a
HalfAt(a) == mem[a] + (256 * mem[a + 1])

\* compressed mode: begin carries the tag
ThumbMode == arg_begin % 2 = 1

UBegin == arg_begin - (arg_begin % 2)

UEnd == arg_end - (arg_end % 2)

\* top 5 bits 11101, 11110 or 11111
LongForm(w) == (w \div 2048) \in {29, 30, 31}

\* the size of the unit that starts at a
UnitLenAt(a) == IF ThumbMode /\ ~LongForm(HalfAt(a)) THEN 2 ELSE 4

RECURSIVE TiledFrom(_, _)
\* the units that start at a end exactly at e
TiledFrom(a, e) ==
  IF a = e THEN TRUE
  ELSE IF a > e THEN FALSE
  ELSE TiledFrom(a + UnitLenAt(a), e)

\* a well-formed range: the untagged end is the end of the last unit; in
\* fixed-width mode the end carries no tag (it is compared as passed)
WellFormedRange ==
  /\ TiledFrom(UBegin, UEnd)
  /\ ThumbMode \/ arg_end % 2 = 0

RECURSIVE ConsumedBefore(_)
\* the sum of the lengths reported for the units before the i-th
ConsumedBefore(i) ==
  IF i <= 1 THEN 0 ELSE units[i - 1].ret + ConsumedBefore(i - 1)

RECURSIVE LinesBefore(_)
\* the lines of the units before the i-th, in order
LinesBefore(i) ==
  IF i <= 1 THEN <<>> ELSE LinesBefore(i - 1) \o units[i - 1].os

\* the raw hex the unit at a must show
RawHexAt(a) ==
  IF ~ThumbMode THEN <<"hex8", "", HalfAt(a + 2), HalfAt(a)>>
  ELSE IF LongForm(HalfAt(a)) THEN <<"hex8", "", HalfAt(a), HalfAt(a + 2)>>
  ELSE <<"hex4", "", 0, HalfAt(a)>>

\* L is one Decoded Line of the unit at a
OneLine(L, a) ==
  /\ Len(L) >= 3
  /\ L[1] = <<"addr", "", a, 0>>
  /\ L[Len(L) - 1] = RawHexAt(a)
  /\ L[Len(L)] = <<"nl", "", 0, 0>>
  /\ \A k \in 2 .. (Len(L) - 2) : L[k][1] \in {"str", "dec", "ptr"}

\* the token that follows the first occurrence of token t in L
TokenAfter(L, t) ==
  LET k == CHOOSE j \in 1 .. (Len(L) - 1) :
             L[j] = t /\ \A h \in 1 .. (j - 1) : L[h] # t
  IN L[k + 1]

HasToken(L, t) == \E j \in 1 .. (Len(L) - 1) : L[j] = t

(***************************************************************************)
(* C1.  For a well-formed range, in either mode, the units of the walk lie *)
(* at contiguous, non-overlapping addresses from the untagged begin, each  *)
(* consumes 4 bytes (fixed-width) or 2 or 4 bytes (compressed), none       *)
(* passes the untagged end, and when Dump returns the consumed lengths sum *)
(* to untagged end minus untagged begin and the cursor is at the end.      *)
(***************************************************************************)
C1_WalkCoversRange ==
  WellFormedRange =>
    /\ \A i \in DOMAIN units :
         /\ units[i].addr = UBegin + ConsumedBefore(i)
         /\ units[i].ret \in (IF ThumbMode THEN {2, 4} ELSE {4})
         /\ units[i].addr + units[i].ret <= UEnd
    /\ pc = "done" =>
         /\ ConsumedBefore(Len(units) + 1) = UEnd - UBegin
         /\ cur = UEnd

\* a finished compressed walk over a tagged end with units of both lengths
C1_Witness ==
  /\ pc = "done"
  /\ WellFormedRange
  /\ ThumbMode
  /\ arg_end % 2 = 1
  /\ Len(units) >= 2
  /\ \E i, j \in DOMAIN units : units[i].ret = 2 /\ units[j].ret = 4

(***************************************************************************)
(* C2.  Dump never decodes a unit that extends past end: every unit the    *)
(* walk decodes, with the bytes the decoder reads for it, ends at or       *)
(* before the end the loop compares with.                                  *)
(***************************************************************************)
C2_NoUnitPastEnd ==
  \A i \in DOMAIN units : units[i].addr + units[i].rd <= end

(***************************************************************************)
(* C3.  A 16-bit word read by DumpThumb16 whose top 5 bits are 11101,      *)
(* 11110 or 11111 is handed to DumpThumb32 (the line shows the combined    *)
(* 32-bit word) and 4 bytes are reported; any other word reports 2 bytes   *)
(* and shows the 16-bit word.                                              *)
(***************************************************************************)
C3_ConsumedLength ==
  ThumbMode =>
    \A i \in DOMAIN units :
      LET u == units[i]
          w == HalfAt(u.addr)
      IN IF (w \div 2048) \in {29, 30, 31}
           THEN /\ u.ret = 4
                /\ u.os[Len(u.os) - 1]
                     = <<"hex8", "", w, HalfAt(u.addr + 2)>>
           ELSE /\ u.ret = 2
                /\ u.os[Len(u.os) - 1] = <<"hex4", "", 0, w>>

\* a walk that met a 16-bit word and then a word with top bits 11101
C3_Witness ==
  /\ ThumbMode
  /\ \E i, j \in DOMAIN units :
       /\ i < j
       /\ units[i].ret = 2
       /\ HalfAt(units[j].addr) \div 2048 = 29
       /\ units[j].ret = 4

(***************************************************************************)
(* C4.  In fixed-width mode Dump masks the tag bit from end: the units     *)
(* visited are those of the range (begin, end with its low bit cleared),   *)
(* so every visited unit starts before the untagged end.                   *)
(***************************************************************************)
C4_FixedModeMasksEnd ==
  ~ThumbMode => \A i \in DOMAIN units : units[i].addr < UEnd

(***************************************************************************)
(* C5.  Every unit visited by the walk writes exactly one Decoded Line:    *)
(* one address prefix, then only mnemonic/operand text, then the raw hex   *)
(* of the consumed word(s) (8 digits for a fixed-width or 32-bit unit, 4   *)
(* for a 16-bit unit) and one line terminator, also when no mnemonic is    *)
(* written; the stream is these lines in order.                            *)
(***************************************************************************)
C5_OneLinePerUnit ==
  /\ \A i \in DOMAIN units : OneLine(units[i].os, units[i].addr)
  /\ os = LinesBefore(Len(units) + 1)

\* a 32-bit compressed unit of no decoded family: a line without mnemonic
C5_Witness ==
  /\ pc = "done"
  /\ ThumbMode
  /\ \E i \in DOMAIN units :
       /\ units[i].ret = 4
       /\ Len(units[i].os) = 3

(***************************************************************************)
(* Encodings of the 32-bit compressed families, by their halfwords.        *)
(***************************************************************************)
\* the unit at a is BL/BLX (immediate): op1 == 2, bit 15 set, bit 14 set
IsBranchLink(a) ==
  /\ ThumbMode
  /\ HalfAt(a) \div 2048 = 30
  /\ HalfAt(a + 2) \div 16384 = 3

\* the sign bit S, the bits J1 and J2 and the fields imm10 and imm11
BranchLinkS(a) == (HalfAt(a) \div 1024) % 2

BranchLinkJ1(a) == (HalfAt(a + 2) \div 8192) % 2

BranchLinkJ2(a) == (HalfAt(a + 2) \div 2048) % 2

BranchLinkImm10(a) == HalfAt(a) % 1024

BranchLinkImm11(a) == HalfAt(a + 2) % 2048

\* S:I1:I2:imm10:imm11:0 sign-extended from 25 bits, with I = NOT(J XOR S)
\* as single bits
BranchLinkOffset(a) ==
  LET S == BranchLinkS(a)
      I1 == 1 - ((BranchLinkJ1(a) + S) % 2)
      I2 == 1 - ((BranchLinkJ2(a) + S) % 2)
      v == (S * 16777216) + (I1 * 8388608) + (I2 * 4194304)
             + (BranchLinkImm10(a) * 4096) + (BranchLinkImm11(a) * 2)
  IN IF S = 1 THEN v - 33554432 ELSE v

AllOffsetFieldsZero(a) ==
  /\ BranchLinkS(a) = 0
  /\ BranchLinkJ1(a) = 0
  /\ BranchLinkJ2(a) = 0
  /\ BranchLinkImm10(a) = 0
  /\ BranchLinkImm11(a) = 0

\* the line of a BL/BLX unit shows the offset third and the target fifth
ShowsBranch(L, offset, target) ==
  /\ Len(L) >= 5
  /\ L[3] = <<"dec", "", offset, 0>>
  /\ L[5] = <<"ptr", "", target, 0>>

CondMnemonics ==
  <<"EQ", "NE", "CS", "CC", "MI", "PL", "VS", "VC", "HI", "LS", "GE", "LT",
    "GT", "LE", "AL">>

CondText(c) ==
  IF c = 15
    THEN << <<"str", "Unexpected condition: ", 0, 0>>, <<"dec", "", 15, 0>> >>
    ELSE << <<"str", CondMnemonics[c + 1], 0, 0>> >>

\* the unit at a is a 16-bit if-then: 1011 1111 cond mask, mask # 0
IsIfThen(a) ==
  /\ ThumbMode
  /\ HalfAt(a) \div 256 = 191
  /\ HalfAt(a) % 16 # 0

\* the line L of a 32-bit unit is a conditional branch: it starts with "B"
IsCondBranchLine(a, L) ==
  /\ ThumbMode
  /\ HalfAt(a) \div 2048 = 30
  /\ Len(L) >= 2
  /\ L[2] = <<"str", "B", 0, 0>>

C7_ConditionNames ==
  /\ \A k \in DOMAIN os : os[k][1] # "oob"
  /\ \A i \in DOMAIN units :
       LET a == units[i].addr
           L == units[i].os
       IN /\ IsIfThen(a) =>
               L = << <<"addr", "", a, 0>>, <<"str", "IT ", 0, 0>>,
                      <<"ptr", "", HalfAt(a) % 16, 0>>, <<"str", " ", 0, 0>> >>
                     \o CondText((HalfAt(a) \div 16) % 16)
                     \o << <<"str", "  // ", 0, 0>>, <<"hex4", "", 0, HalfAt(a)>>,
                           <<"nl", "", 0, 0>> >>
          /\ IsCondBranchLine(a, L) =>
               LET t == CondText((HalfAt(a) \div 64) % 16)
               IN /\ Len(L) >= 3 + Len(t)
                  /\ SubSeq(L, 3, 2 + Len(t)) = t
                  /\ L[3 + Len(t)] = <<"str", ".W ", 0, 0>>

\* an if-then with condition 15 was decoded
C7_Witness ==
  \E i \in DOMAIN units :
    /\ IsIfThen(units[i].addr)
    /\ (HalfAt(units[i].addr) \div 16) % 16 = 15

(***************************************************************************)
(* C8.  Every BL/BLX (immediate) encoding (of a well-formed range) shows   *)
(* the offset S:I1:I2:imm10:imm11:0 sign-extended from 25 bits, with I1 =  *)
(* NOT(J1 XOR S) and I2 = NOT(J2 XOR S) as single bits, and the target     *)
(* instruction address + 4 + that offset.                                  *)
(***************************************************************************)
C8_BranchLinkOffset ==
  WellFormedRange =>
    \A i \in DOMAIN units :
      IsBranchLink(units[i].addr) =>
        ShowsBranch(units[i].os, BranchLinkOffset(units[i].addr),
                    (units[i].addr + 4) + BranchLinkOffset(units[i].addr))

(***************************************************************************)
(* C9.  Every modified-immediate data-processing encoding (op1 == 2, bit   *)
(* 15 clear, op2 bit 5 clear; of a well-formed range) shows inside         *)
(* ThumbExpand(...) the 12-bit value i:imm3:imm8, i at bit 11, imm3 at     *)
(* bits 10..8, imm8 at bits 7..0, a value in 0..4095.                      *)
(***************************************************************************)
IsModImm(a) ==
  /\ ThumbMode
  /\ HalfAt(a) \div 2048 = 30
  /\ (HalfAt(a) \div 512) % 2 = 0
  /\ HalfAt(a + 2) < 32768

ModImm12(a) ==
  (((HalfAt(a) \div 1024) % 2) * 2048)
    + (((HalfAt(a + 2) \div 4096) % 8) * 256)
    + (HalfAt(a + 2) % 256)

C9_ModImmIs12Bit ==
  WellFormedRange =>
    \A i \in DOMAIN units :
      IsModImm(units[i].addr) =>
        LET L == units[i].os
            t == <<"str", ", ThumbExpand(", 0, 0>>
        IN /\ HasToken(L, t)
           /\ TokenAfter(L, t) = <<"dec", "", ModImm12(units[i].addr), 0>>
           /\ TokenAfter(L, t)[3] \in 0 .. 4095

(***************************************************************************)
(* C10.  Every 32-bit store of the 8-bit-immediate form (op1 == 3, op3 ==  *)
(* 2; of a well-formed range) shown as STR or STRT shows imm8 sign-        *)
(* extended from 8 bits: a value in -128..127, imm8 - 256 for imm8 >=      *)
(* 0x80.                                                                   *)
(***************************************************************************)
\* the line L of the unit at a is STR or STRT of the 8-bit-immediate form
IsStoreImm8Line(a, L) ==
  /\ ThumbMode
  /\ HalfAt(a) \div 16 = 3972
  /\ Len(L) >= 2
  /\ L[2] \in {<<"str", "STR ", 0, 0>>, <<"str", "STRT ", 0, 0>>}

SignedImm8(a) ==
  LET imm8 == HalfAt(a + 2) % 256
  IN IF imm8 >= 128 THEN imm8 - 256 ELSE imm8

\* the immediate follows "], #" (post-indexed) or ", #"
StoreImmShown(L) ==
  IF HasToken(L, <<"str", "], #", 0, 0>>)
    THEN TokenAfter(L, <<"str", "], #", 0, 0>>)
    ELSE TokenAfter(L, <<"str", ", #", 0, 0>>)

C10_StoreImm8Signed ==
  WellFormedRange =>
    \A i \in DOMAIN units :
      IsStoreImm8Line(units[i].addr, units[i].os) =>
        StoreImmShown(units[i].os)
          = <<"dec", "", SignedImm8(units[i].addr), 0>>

(***************************************************************************)
(* The 32-bit conditional branch form, by its halfwords.                   *)
(***************************************************************************)
\* the unit at a has op1 == 2, bit 15 set and bits 14..12 zero
IsCondBranchForm(a) ==
  /\ ThumbMode
  /\ HalfAt(a) \div 2048 = 30
  /\ HalfAt(a + 2) \div 4096 = 8

\* the condition field, bits 25..22 of the combined word
CondBranchCond(a) == (HalfAt(a) \div 64) % 16

\* the low 6 bits of op2, bits 25..20 of the combined word
Op2Low6(a) == (HalfAt(a) \div 16) % 64

\* S:J2:J1:imm6:imm11:0 sign-extended from 21 bits
CondBranchOffset(a) ==
  LET S == (HalfAt(a) \div 1024) % 2
      J2 == (HalfAt(a + 2) \div 2048) % 2
      J1 == (HalfAt(a + 2) \div 8192) % 2
      v == (S * 1048576) + (J2 * 524288) + (J1 * 262144)
             + ((HalfAt(a) % 64) * 4096) + ((HalfAt(a + 2) % 2048) * 2)
  IN IF S = 1 THEN v - 2097152 ELSE v

\* the Decoded Line of a conditional branch at a
CondBranchLine(a) ==
  << <<"addr", "", a, 0>>, <<"str", "B", 0, 0>> >>
    \o CondText(CondBranchCond(a))
    \o << <<"str", ".W ", 0, 0>>, <<"dec", "", CondBranchOffset(a), 0>>,
          <<"str", " (", 0, 0>>,
          <<"ptr", "", (a + 4) + CondBranchOffset(a), 0>>,
          <<"str", ")", 0, 0>>, <<"str", "  // ", 0, 0>>,
          <<"hex8", "", HalfAt(a), HalfAt(a + 2)>>, <<"nl", "", 0, 0>> >>

\* the Decoded Line of a 32-bit unit at a of which nothing is decoded
UndecodedLine32(a) ==
  << <<"addr", "", a, 0>>, <<"hex8", "", HalfAt(a), HalfAt(a + 2)>>,
     <<"nl", "", 0, 0>> >>

(***************************************************************************)
(* C11, as claimed.  Every unit (of a well-formed range) of the            *)
(* conditional branch form whose low 6 bits of op2 are not all set is      *)
(* decoded as B<cond>.W with the condition of bits 25..22, the offset      *)
(* S:J2:J1:imm6:imm11:0 sign-extended from 21 bits and the target          *)
(* instruction address + 4 + offset; also when the condition is 14 or 15.  *)
(***************************************************************************)
C11_DecodedUnlessLow6Set ==
  WellFormedRange =>
    \A i \in DOMAIN units :
      (IsCondBranchForm(units[i].addr) /\ Op2Low6(units[i].addr) # 63) =>
        units[i].os = CondBranchLine(units[i].addr)

(***************************************************************************)
(* C11, amended.  A unit of the conditional branch form is decoded as      *)
(* B<cond>.W (condition of bits 25..22, offset S:J2:J1:imm6:imm11:0        *)
(* sign-extended from 21 bits, target instruction address + 4 + offset)    *)
(* exactly when bits 5..3 of op2, the upper three bits of the condition,   *)
(* are not all set; with condition 14 or 15 its line shows the address and *)
(* the raw word only.                                                      *)
(***************************************************************************)
C11_DecodedUnlessCondHigh ==
  \A i \in DOMAIN units :
    IsCondBranchForm(units[i].addr) =>
      units[i].os = (IF CondBranchCond(units[i].addr) \in 0 .. 13
                       THEN CondBranchLine(units[i].addr)
                       ELSE UndecodedLine32(units[i].addr))

\* a decoded conditional branch with a negative offset and J1 # J2
C11_Witness ==
  \E i \in DOMAIN units :
    /\ IsCondBranchForm(units[i].addr)
    /\ CondBranchCond(units[i].addr) = 13
    /\ CondBranchOffset(units[i].addr) < 0
    /\ (HalfAt(units[i].addr + 2) \div 2048) % 2
         # (HalfAt(units[i].addr + 2) \div 8192) % 2
    /\ Len(units[i].os) = 11

(***************************************************************************)
(* The 16-bit unconditional branch, by its halfword.                       *)
(***************************************************************************)
\* the unit at a is a 16-bit word with top 6 bits 111000 or 111001
IsBranch16(a) ==
  /\ ThumbMode
  /\ HalfAt(a) \div 1024 \in {56, 57}

\* the low 11 bits shifted left by 1, sign-extended from 12 bits
Branch16Offset(a) ==
  LET v == (HalfAt(a) % 2048) * 2
  IN IF v >= 2048 THEN v - 4096 ELSE v

(***************************************************************************)
(* C12.  The line of every 16-bit unconditional branch shows "B ", the     *)
(* offset (the low 11 bits of the word shifted left by 1 and sign-extended *)
(* from 12 bits: even, in -2048..2046, a function of bits 10..0 only) and  *)
(* the target instruction address + 4 + offset.                            *)
(***************************************************************************)
C12_Branch16Offset ==
  \A i \in DOMAIN units :
    LET a == units[i].addr
    IN IsBranch16(a) =>
         /\ Branch16Offset(a) \in -2048 .. 2046
         /\ Branch16Offset(a) % 2 = 0
         /\ units[i].os =
              << <<"addr", "", a, 0>>, <<"str", "B ", 0, 0>>,
                 <<"dec", "", Branch16Offset(a), 0>>, <<"str", " (", 0, 0>>,
                 <<"ptr", "", (a + 4) + Branch16Offset(a), 0>>,
                 <<"str", ")", 0, 0>>, <<"str", "  // ", 0, 0>>,
                 <<"hex4", "", 0, HalfAt(a)>>, <<"nl", "", 0, 0>> >>

\* a decoded 16-bit branch with top bits 111001 and a negative offset
C12_Witness ==
  \E i \in DOMAIN units :
    /\ IsBranch16(units[i].addr)
    /\ HalfAt(units[i].addr) \div 1024 = 57
    /\ Branch16Offset(units[i].addr) = -2
    /\ units[i].ret = 2

(***************************************************************************)
(* The 16-bit register add/subtract family, by its halfword.               *)
(***************************************************************************)
\* the unit at a is a 16-bit word with word >> 9 in 0xC..0xF
IsAddSub16(a) ==
  /\ ThumbMode
  /\ HalfAt(a) \div 512 \in 12 .. 15

\* word >> 9: 0xC add register, 0xD subtract register, 0xE add immediate,
\* 0xF subtract immediate
AddSubVariant(a) == HalfAt(a) \div 512

\* the 3-bit immediate or third register, bits 8..6
AddSubImm3(a) == (HalfAt(a) \div 64) % 8

\* the text of a low register
LowReg(r) == << <<"str", "r", 0, 0>>, <<"dec", "", r, 0>> >>

\* the line of the unit at a with mnemonic m and third operand third
AddSubLine(a, m, third) ==
  << <<"addr", "", a, 0>>, <<"str", m, 0, 0>> >>
    \o LowReg(HalfAt(a) % 8) \o << <<"str", ", ", 0, 0>> >>
    \o LowReg((HalfAt(a) \div 8) % 8) \o third
    \o << <<"str", "  // ", 0, 0>>, <<"hex4", "", 0, HalfAt(a)>>,
          <<"nl", "", 0, 0>> >>

\* the ADDS/SUBS line of the unit at a: a third register for the register
\* variants, "#imm3" for the immediate variants
AddsSubsLine(a) ==
  AddSubLine(a, IF AddSubVariant(a) % 2 = 0 THEN "ADDS " ELSE "SUBS ",
             IF AddSubVariant(a) \in {12, 13}
               THEN << <<"str", ", ", 0, 0>> >> \o LowReg(AddSubImm3(a))
               ELSE << <<"str", ", #", 0, 0>>,
                       <<"dec", "", AddSubImm3(a), 0>> >>)

\* the MOV line of the unit at a: no third operand
MovLine(a) == AddSubLine(a, "MOV ", <<>>)

(***************************************************************************)
(* C13, as claimed.  In the 16-bit register add/subtract family (of a      *)
(* well-formed range) MOV without a third operand is written only for the  *)
(* subtract-immediate variant (word >> 9 == 0xF) with immediate 0; the     *)
(* register variants and the add-immediate variant, also with immediate    *)
(* 0, are written as ADDS/SUBS.                                            *)
(***************************************************************************)
C13_MovOnlyForSubImmediate ==
  WellFormedRange =>
    \A i \in DOMAIN units :
      IsAddSub16(units[i].addr) =>
        units[i].os =
          (IF AddSubVariant(units[i].addr) = 15 /\ AddSubImm3(units[i].addr) = 0
             THEN MovLine(units[i].addr)
             ELSE AddsSubsLine(units[i].addr))

(***************************************************************************)
(* C13, amended.  In the 16-bit register add/subtract family MOV without a *)
(* third operand is written for both immediate variants (word >> 9 == 0xE  *)
(* or 0xF) with immediate 0; the register variants, and the immediate      *)
(* variants with a non-zero immediate, are written as ADDS/SUBS.           *)
(***************************************************************************)
C13_MovForImmediateZero ==
  \A i \in DOMAIN units :
    IsAddSub16(units[i].addr) =>
      units[i].os =
        (IF AddSubVariant(units[i].addr) \in {14, 15}
              /\ AddSubImm3(units[i].addr) = 0
           THEN MovLine(units[i].addr)
           ELSE AddsSubsLine(units[i].addr))

\* a decoded add-immediate with immediate 0, written as MOV
C13_Witness ==
  \E i \in DOMAIN units :
    /\ IsAddSub16(units[i].addr)
    /\ AddSubVariant(units[i].addr) = 14
    /\ AddSubImm3(units[i].addr) = 0
    /\ units[i].os[2] = <<"str", "MOV ", 0, 0>>

(***************************************************************************)
(* The decoders entered for a unit.                                        *)
(***************************************************************************)
\* the key op1 that DumpThumb32 computes for the unit at a
Op1At(a) == Field(Thumb32Instr(mem, a), 27, 3)

\* DumpThumb16 delegated the unit u to DumpThumb32
Delegated(u) ==
  /\ Len(u.calls) >= 2
  /\ u.calls[1] = "DumpThumb16"
  /\ u.calls[2] = "DumpThumb32"

\* the number of address prefixes in the line L
PrefixCount(L) == Cardinality({k \in DOMAIN L : L[k][1] = "addr"})

(***************************************************************************)
(* C14.  Whenever DumpThumb16 delegates a unit to DumpThumb32 the key op1  *)
(* is 1, 2 or 3; so in a walk the op1 == 0 fallback is never taken: a unit *)
(* enters DumpThumb16 alone or DumpThumb16 and then DumpThumb32 once,      *)
(* DumpThumb32 returns 4, and every unit has exactly one address prefix.   *)
(***************************************************************************)
C14_NoFallback ==
  \A i \in DOMAIN units :
    LET u == units[i]
    IN /\ Delegated(u) => Op1At(u.addr) \in {1, 2, 3}
       /\ ThumbMode =>
            \/ u.calls = <<"DumpThumb16">> /\ u.ret = 2
            \/ u.calls = <<"DumpThumb16", "DumpThumb32">> /\ u.ret = 4
       /\ PrefixCount(u.os) = 1

\* a walk in which units with the keys 1 and 2 were delegated
C14_Witness ==
  \A k \in {1, 2} :
    \E i \in DOMAIN units :
      /\ Delegated(units[i])
      /\ Op1At(units[i].addr) = k
      /\ units[i].ret = 4

=============================================================================
